---- MODULE Spec2Model ----
(***************************************************************************)
(* SeasideVPN NetworkManager plugin (viridian/barnacles/network-manager).  *)
(*                                                                         *)
(* The model follows plugin/plugin.c: the private plugin state             *)
(* (NMSeasidePluginPrivate), the two class methods real_connect and        *)
(* real_disconnect, the library loader seaside_load_library, the engine    *)
(* callback capture_error and the two idle handlers capture_error_idle and *)
(* seaside_set_vpnconfig_idle.  The connection editor follows              *)
(* editor/interface_gtk3.c: the private editor state (the embedded         *)
(* certificate text and the protocol name), the two widget callbacks       *)
(* choose_certificate_cb and change_protocol_cb, check_validity and        *)
(* update_connection.                                                      *)
(*                                                                         *)
(* The environment of the plugin is modelled by what its calls do:         *)
(*   - GLib: g_idle_add appends to a FIFO of idle sources that the main    *)
(*     loop thread dispatches one at a time; g_error logs and aborts the   *)
(*     process; g_base64_decode skips characters outside the alphabet;     *)
(*     g_base64_encode pads the last group with '=' and breaks no lines;   *)
(*   - libnm (NMVpnServicePlugin): the service state INIT, STARTING,       *)
(*     STARTED, STOPPING, STOPPED; Connect is accepted in INIT and STOPPED *)
(*     only and sets STARTING when the class method returned TRUE;         *)
(*     nm_vpn_service_plugin_disconnect calls the class method only in     *)
(*     STARTING and STARTED; set_ip4_config sets STARTED;                  *)
(*     nm_setting_vpn_add_data_item stores any string, the empty one       *)
(*     included, and removes the key when the item is NULL (libnm 1.24);   *)
(*   - the engine (libseaside.so): vpn_start either fails with a message   *)
(*     or returns a configuration and a fresh session handle; its threads  *)
(*     may call capture_error at any time while the session runs.          *)
(***************************************************************************)
EXTENDS Integers, Sequences, FiniteSets, TLC

\* ---------------------------------------------------------------- bounds
\* Number of Connect requests the host makes.
MaxConnects == 2
\* Number of capture_error calls engine threads make.
MaxReports == 2
\* Length in bytes of the longest certificate file the editor embeds.
MaxFileLen == 3

\* ------------------------------------------------------------- constants
\* The null pointer (plugin.c:302-305 initialise all four fields to it).
NULL == 0
\* A non-null symbol or module address returned by dlopen / dlsym.
LOADED == 1

Sessions == 1..MaxConnects

\* -------------------------------------------------- connection data items
\* A data item of the VPN setting: absent (NULL) or a string, a sequence of
\* characters.
Absent == [present |-> FALSE, value |-> <<>>]
Item(s) == [present |-> TRUE, value |-> s]

EmptyString == <<>>
\* "QUJD", the base64 form of the bytes 65 66 67 ("ABC").
EmbeddedCertificate == <<81, 85, 74, 68>>
\* "/c", a file name.
CertificatePath == <<47, 99>>
\* "QU!JD": the base64 text above with a character outside the alphabet.
MalformedCertificate == <<81, 85, 33, 74, 68>>
\* "port"
ProtocolName == <<112, 111, 114, 116>>

\* The connections the host asks to connect: the VPN setting (absent or not)
\* and its three data items.
Connection(s_vpn, certificate, certifile, protocol) ==
    [s_vpn |-> s_vpn, certificate |-> certificate, certifile |-> certifile, protocol |-> protocol]
Connections ==
    { Connection(FALSE, Absent, Absent, Absent),
      Connection(TRUE, Absent, Absent, Absent),
      Connection(TRUE, Absent, Absent, Item(ProtocolName)),
      Connection(TRUE, Absent, Item(<<49>>), Item(ProtocolName)),
      Connection(TRUE, Item(EmbeddedCertificate), Absent, Absent),
      Connection(TRUE, Item(CertificatePath), Item(<<49>>), Absent),
      Connection(TRUE, Item(EmptyString), Absent, Item(ProtocolName)),
      Connection(TRUE, Item(EmbeddedCertificate), Absent, Item(EmptyString)),
      Connection(TRUE, Item(EmbeddedCertificate), Absent, Item(ProtocolName)),
      Connection(TRUE, Item(MalformedCertificate), Absent, Item(ProtocolName)),
      Connection(TRUE, Item(CertificatePath), Item(<<49>>), Item(ProtocolName)),
      Connection(TRUE, Item(CertificatePath), Absent, Item(ProtocolName)) }

\* mime_base64_rank: the rank of a character in the base64 alphabet; 255 (0xff)
\* marks a character outside it, and '=' (61) has rank 0.
Base64Rank(c) ==
    CASE c >= 65 /\ c <= 90 -> c - 65
      [] c >= 97 /\ c <= 122 -> c - 71
      [] c >= 48 /\ c <= 57 -> c + 4
      [] c = 43 -> 62
      [] c = 47 -> 63
      [] c = 61 -> 0
      [] OTHER -> 255

RECURSIVE Base64Step(_, _, _, _, _)
\* g_base64_decode_step: v accumulates 6 bits per accepted character, n counts
\* the characters of the current group, l0 and l1 are the two last accepted
\* characters; every fourth accepted character emits up to three bytes.
Base64Step(text, v, n, l0, l1) ==
    IF text = <<>> THEN <<>>
    ELSE LET c == Head(text)
             rank == Base64Rank(c)
         IN  IF rank = 255 THEN Base64Step(Tail(text), v, n, l0, l1)
             ELSE LET v2 == (v * 64 + rank) % 16777216
                  IN  IF n + 1 = 4
                      THEN << v2 \div 65536 >>
                           \o (IF l0 # 61 THEN << (v2 \div 256) % 256 >> ELSE <<>>)
                           \o (IF c # 61 THEN << v2 % 256 >> ELSE <<>>)
                           \o Base64Step(Tail(text), v2, 0, c, l0)
                      ELSE Base64Step(Tail(text), v2, n + 1, c, l0)

\* g_base64_decode(text, &len): never fails for a non-NULL text.
g_base64_decode(text) == Base64Step(text, 0, 0, 0, 0)

\* --------------------------------------------------------- engine module
\* What dlopen finds: no module, or a module exporting some of the symbols.
LibraryEnvs ==
    { [found |-> FALSE, exports |-> {}] }
    \cup { [found |-> TRUE, exports |-> e] : e \in SUBSET {"vpn_start", "vpn_stop"} }

LibraryFound == [found |-> TRUE, exports |-> {"vpn_start", "vpn_stop"}]

\* VPNConfig records the engine returns from vpn_start.
ZeroConfig ==
    [tunnel_name |-> <<>>, tunnel_mtu |-> 0, remote_address |-> 0, tunnel_gateway |-> 0,
     tunnel_address |-> 0, tunnel_prefix |-> 0, dns_address |-> 0]
FullConfig ==
    [tunnel_name |-> <<116, 117, 110>>, tunnel_mtu |-> 1400, remote_address |-> 16909060,
     tunnel_gateway |-> 167772161, tunnel_address |-> 167772162, tunnel_prefix |-> 24,
     dns_address |-> 134744072]
\* The records the engine returns in the sessions explored.
StartConfigs == {ZeroConfig, FullConfig}
\* Every record whose fields are each zero (empty) or the value of FullConfig.
ConfigRecords ==
    [tunnel_name : {<<>>, FullConfig.tunnel_name},
     tunnel_mtu : {0, FullConfig.tunnel_mtu},
     remote_address : {0, FullConfig.remote_address},
     tunnel_gateway : {0, FullConfig.tunnel_gateway},
     tunnel_address : {0, FullConfig.tunnel_address},
     tunnel_prefix : {0, FullConfig.tunnel_prefix},
     dns_address : {0, FullConfig.dns_address}]

\* Messages the engine returns in err_string or passes to capture_error.
EngineMessages == {"refused", "timeout"}
\* The message pointers the engine passes to capture_error: NULL or a message.
ReportMessages == {Absent, Item("tunnel failed")}

\* The engine's answers to vpn_start and vpn_stop: success or a message.
Success == [ok |-> TRUE, message |-> "none"]
Failure(m) == [ok |-> FALSE, message |-> m]
Answers == {Success} \cup {Failure(m) : m \in EngineMessages}

\* ------------------------------------------------------ calls made by an operation
\* One call an operation makes to the engine, the loader, GLib or libnm.
Call(f) == [f |-> f, handle |-> NULL, data |-> <<>>, len |-> 0, protocol |-> <<>>]
StartCall(data, len, protocol) ==
    [f |-> "vpn_start", handle |-> NULL, data |-> data, len |-> len, protocol |-> protocol]
StopCall(handle) == [f |-> "vpn_stop", handle |-> handle, data |-> <<>>, len |-> 0, protocol |-> <<>>]

NoErr == [code |-> "none", message |-> "none"]
Err(code, message) == [code |-> code, message |-> message]

Made(calls, f) == \E i \in 1..Len(calls) : calls[i].f = f
Count(calls, f) == Cardinality({i \in 1..Len(calls) : calls[i].f = f})

\* ----------------------------------------------------- seaside_load_library
dlsym(env, name) == IF name \in env.exports THEN LOADED ELSE NULL

\* Mutant of seaside_load_library: only vpn_start is tested after dlsym.
seaside_load_library_ignores_stop(p, env) ==
    IF p.lib_handle # NULL
    THEN [priv |-> p, ret |-> TRUE, error |-> NoErr, calls |-> <<>>]
    ELSE IF ~env.found
         THEN [priv |-> [p EXCEPT !.lib_handle = NULL], ret |-> FALSE,
               error |-> Err("LaunchFailed", "Error loading libseaside"),
               calls |-> <<Call("dlopen")>>]
         ELSE LET q == [p EXCEPT !.lib_handle = LOADED,
                                 !.vpn_start = dlsym(env, "vpn_start"),
                                 !.vpn_stop = dlsym(env, "vpn_stop")]
              IN  IF q.vpn_start = NULL
                  THEN [priv |-> [q EXCEPT !.lib_handle = NULL], ret |-> FALSE,
                        error |-> Err("LaunchFailed", "Error reading libseaside symbols"),
                        calls |-> <<Call("dlopen"), Call("dlsym"), Call("dlsym"), Call("dlclose")>>]
                  ELSE [priv |-> q, ret |-> TRUE, error |-> NoErr,
                        calls |-> <<Call("dlopen"), Call("dlsym"), Call("dlsym")>>]

\* Mutant of seaside_load_library: a module with a missing symbol is kept.
seaside_load_library_keeps_module(p, env) ==
    IF p.lib_handle # NULL
    THEN [priv |-> p, ret |-> TRUE, error |-> NoErr, calls |-> <<>>]
    ELSE IF ~env.found
         THEN [priv |-> [p EXCEPT !.lib_handle = NULL], ret |-> FALSE,
               error |-> Err("LaunchFailed", "Error loading libseaside"),
               calls |-> <<Call("dlopen")>>]
         ELSE LET q == [p EXCEPT !.lib_handle = LOADED,
                                 !.vpn_start = dlsym(env, "vpn_start"),
                                 !.vpn_stop = dlsym(env, "vpn_stop")]
              IN  IF q.vpn_start = NULL \/ q.vpn_stop = NULL
                  THEN [priv |-> q, ret |-> FALSE,
                        error |-> Err("LaunchFailed", "Error reading libseaside symbols"),
                        calls |-> <<Call("dlopen"), Call("dlsym"), Call("dlsym")>>]
                  ELSE [priv |-> q, ret |-> TRUE, error |-> NoErr,
                        calls |-> <<Call("dlopen"), Call("dlsym"), Call("dlsym")>>]

\* Mutant of seaside_load_library: the cached module handle is not consulted.
seaside_load_library_reloads(p, env) ==
    IF ~env.found
    THEN [priv |-> [p EXCEPT !.lib_handle = NULL], ret |-> FALSE,
          error |-> Err("LaunchFailed", "Error loading libseaside"),
          calls |-> <<Call("dlopen")>>]
    ELSE LET q == [p EXCEPT !.lib_handle = LOADED,
                            !.vpn_start = dlsym(env, "vpn_start"),
                            !.vpn_stop = dlsym(env, "vpn_stop")]
         IN  IF q.vpn_start = NULL \/ q.vpn_stop = NULL
             THEN [priv |-> [q EXCEPT !.lib_handle = NULL], ret |-> FALSE,
                   error |-> Err("LaunchFailed", "Error reading libseaside symbols"),
                   calls |-> <<Call("dlopen"), Call("dlsym"), Call("dlsym"), Call("dlclose")>>]
             ELSE [priv |-> q, ret |-> TRUE, error |-> NoErr,
                   calls |-> <<Call("dlopen"), Call("dlsym"), Call("dlsym")>>]

\* Mutant of seaside_load_library: the module is closed once its symbols are
\* resolved.
seaside_load_library_unloads_resolved(p, env) ==
    IF p.lib_handle # NULL
    THEN [priv |-> p, ret |-> TRUE, error |-> NoErr, calls |-> <<>>]
    ELSE IF ~env.found
         THEN [priv |-> [p EXCEPT !.lib_handle = NULL], ret |-> FALSE,
               error |-> Err("LaunchFailed", "Error loading libseaside"),
               calls |-> <<Call("dlopen")>>]
         ELSE LET q == [p EXCEPT !.lib_handle = LOADED,
                                 !.vpn_start = dlsym(env, "vpn_start"),
                                 !.vpn_stop = dlsym(env, "vpn_stop")]
              IN  IF q.vpn_start = NULL \/ q.vpn_stop = NULL
                  THEN [priv |-> [q EXCEPT !.lib_handle = NULL], ret |-> FALSE,
                        error |-> Err("LaunchFailed", "Error reading libseaside symbols"),
                        calls |-> <<Call("dlopen"), Call("dlsym"), Call("dlsym"), Call("dlclose")>>]
                  ELSE [priv |-> [q EXCEPT !.lib_handle = NULL], ret |-> TRUE, error |-> NoErr,
                        calls |-> <<Call("dlopen"), Call("dlsym"), Call("dlsym"), Call("dlclose")>>]

\* Returns the new private state, the return value, the GError and the loader
\* calls made.
seaside_load_library(p, env) ==
    IF p.lib_handle # NULL
    THEN [priv |-> p, ret |-> TRUE, error |-> NoErr, calls |-> <<>>]
    ELSE IF ~env.found
         THEN [priv |-> [p EXCEPT !.lib_handle = NULL], ret |-> FALSE,
               error |-> Err("LaunchFailed", "Error loading libseaside"),
               calls |-> <<Call("dlopen")>>]
         ELSE LET q == [p EXCEPT !.lib_handle = LOADED,
                                 !.vpn_start = dlsym(env, "vpn_start"),
                                 !.vpn_stop = dlsym(env, "vpn_stop")]
              IN  IF q.vpn_start = NULL \/ q.vpn_stop = NULL
                  THEN [priv |-> [q EXCEPT !.lib_handle = NULL], ret |-> FALSE,
                        error |-> Err("LaunchFailed", "Error reading libseaside symbols"),
                        calls |-> <<Call("dlopen"), Call("dlsym"), Call("dlsym"), Call("dlclose")>>]
                  ELSE [priv |-> q, ret |-> TRUE, error |-> NoErr,
                        calls |-> <<Call("dlopen"), Call("dlsym"), Call("dlsym")>>]

\* ------------------------------------------------------------- real_connect
\* Mutant of CertificateData: the certificate is decoded whatever certifile is.
CertificateDataAlwaysDecodes(certificate, certifile) ==
    LET decoded == g_base64_decode(certificate.value)
    IN  [data |-> decoded, len |-> Len(decoded), calls |-> <<Call("g_base64_decode")>>]

\* Mutant of CertificateData: the certificate text is passed on undecoded.
CertificateDataPassesText(certificate, certifile) ==
    IF certifile.present
    THEN [data |-> certificate.value, len |-> 0, calls |-> <<Call("g_strdup")>>]
    ELSE [data |-> certificate.value, len |-> Len(certificate.value),
          calls |-> <<Call("g_base64_decode")>>]

\* The certificate buffer and length real_connect passes on (lines 203-218).
CertificateData(certificate, certifile) ==
    IF certifile.present
    THEN [data |-> certificate.value, len |-> 0, calls |-> <<Call("g_strdup")>>]
    ELSE LET decoded == g_base64_decode(certificate.value)
         IN  [data |-> decoded, len |-> Len(decoded), calls |-> <<Call("g_base64_decode")>>]

\* Mutant of StartOutcome: the engine's message is not put into the error.
StartOutcomeLosesMessage(p, calls, start) ==
    IF ~start.ok
    THEN [priv |-> p, ret |-> "FALSE", calls |-> calls \o <<Call("free_err_string")>>,
          error |-> Err("LaunchFailed", "Error starting viridian")]
    ELSE [priv |-> [p EXCEPT !.coordinator = start.handle],
          ret |-> "started", calls |-> calls, error |-> NoErr]

\* Mutant of StartOutcome: the handle is stored although vpn_start failed.
StartOutcomeStoresFailedHandle(p, calls, start) ==
    IF ~start.ok
    THEN [priv |-> [p EXCEPT !.coordinator = start.handle], ret |-> "FALSE",
          calls |-> calls \o <<Call("free_err_string")>>,
          error |-> Err("LaunchFailed", start.message)]
    ELSE [priv |-> [p EXCEPT !.coordinator = start.handle],
          ret |-> "started", calls |-> calls, error |-> NoErr]

\* Mutant of StartOutcome: a failed vpn_start is called a second time.
StartOutcomeRetries(p, calls, start) ==
    IF ~start.ok
    THEN [priv |-> p, ret |-> "FALSE",
          calls |-> calls \o <<Call("free_err_string"), calls[Len(calls)], Call("free_err_string")>>,
          error |-> Err("LaunchFailed", start.message)]
    ELSE [priv |-> [p EXCEPT !.coordinator = start.handle],
          ret |-> "started", calls |-> calls, error |-> NoErr]

\* Mutant of StartOutcome: the handle the engine returned is changed.
StartOutcomeAltersHandle(p, calls, start) ==
    IF ~start.ok
    THEN [priv |-> p, ret |-> "FALSE", calls |-> calls \o <<Call("free_err_string")>>,
          error |-> Err("LaunchFailed", start.message)]
    ELSE [priv |-> [p EXCEPT !.coordinator = start.handle + 1],
          ret |-> "started", calls |-> calls, error |-> NoErr]

\* The call of vpn_start and the test of its result (lines 231-239): calls
\* holds the calls made so far, the vpn_start call included.  On success the
\* engine has written the session handle to priv->coordinator.
StartOutcome(p, calls, start) ==
    IF ~start.ok
    THEN [priv |-> p, ret |-> "FALSE", calls |-> calls \o <<Call("free_err_string")>>,
          error |-> Err("LaunchFailed", start.message)]
    ELSE [priv |-> [p EXCEPT !.coordinator = start.handle],
          ret |-> "started", calls |-> calls, error |-> NoErr]

\* real_connect up to the return of vpn_start (lines 185-239).  start is the
\* engine's answer should vpn_start be called: [ok, message, handle].  ret is
\* "FALSE" for an early return and "started" when vpn_start returned true.
real_connect(p, s_vpn, certificate, certifile, protocol, env, start) ==
    IF ~s_vpn
    THEN [priv |-> p, ret |-> "FALSE", calls |-> <<>>,
          error |-> Err("InvalidConnection", "Error extracting settings")]
    ELSE IF ~certificate.present
    THEN [priv |-> p, ret |-> "FALSE", calls |-> <<>>,
          error |-> Err("BadArguments", "Error extracting 'certificate' parameter")]
    ELSE LET cert == CertificateData(certificate, certifile)
         IN  IF ~protocol.present
             THEN [priv |-> p, ret |-> "FALSE", calls |-> cert.calls,
                   error |-> Err("BadArguments", "Error extracting 'protocol' parameter")]
             ELSE LET load == seaside_load_library(p, env)
                  IN  IF ~load.ret
                      THEN [priv |-> load.priv, ret |-> "FALSE", calls |-> cert.calls \o load.calls,
                            error |-> load.error]
                      ELSE LET calls == cert.calls \o load.calls
                                          \o <<StartCall(cert.data, cert.len, protocol.value)>>
                           IN  StartOutcome(load.priv, calls, start)

\* ---------------------------------------------------------- real_disconnect
RECURSIVE nm_vpn_service_plugin_disconnect(_, _, _)

\* Mutant of real_disconnect: priv->coordinator is not cleared.
real_disconnect_keeps_handle(st, p, stop) ==
    LET stopping == p.coordinator # NULL /\ p.vpn_stop # NULL
        q == p
        nested == nm_vpn_service_plugin_disconnect(st, q, stop)
    IN  [priv |-> nested.priv,
         state |-> nested.state,
         ret |-> "TRUE",
         error |-> IF stopping /\ ~stop.ok THEN Err("Failed", stop.message) ELSE NoErr,
         stopArg |-> IF stopping THEN p.coordinator ELSE NULL,
         failures |-> nested.failures,
         calls |-> (IF stopping
                    THEN <<StopCall(p.coordinator)>>
                         \o (IF stop.ok THEN <<>> ELSE <<Call("free_err_string")>>)
                         \o <<Call("clear_coordinator")>>
                    ELSE <<>>)
                   \o <<Call("nm_vpn_service_plugin_disconnect")>> \o nested.calls]

\* Mutant of real_disconnect: priv->coordinator is cleared only when vpn_stop
\* succeeded.
real_disconnect_clears_on_success(st, p, stop) ==
    LET stopping == p.coordinator # NULL /\ p.vpn_stop # NULL
        q == IF stopping /\ stop.ok THEN [p EXCEPT !.coordinator = NULL] ELSE p
        nested == nm_vpn_service_plugin_disconnect(st, q, stop)
    IN  [priv |-> nested.priv,
         state |-> nested.state,
         ret |-> "TRUE",
         error |-> IF stopping /\ ~stop.ok THEN Err("Failed", stop.message) ELSE NoErr,
         stopArg |-> IF stopping THEN p.coordinator ELSE NULL,
         failures |-> nested.failures,
         calls |-> (IF stopping
                    THEN <<StopCall(p.coordinator)>>
                         \o (IF stop.ok THEN <<>> ELSE <<Call("free_err_string")>>)
                         \o <<Call("clear_coordinator")>>
                    ELSE <<>>)
                   \o <<Call("nm_vpn_service_plugin_disconnect")>> \o nested.calls]

\* Mutant of real_disconnect: the disconnect is requested from libnm before
\* priv->coordinator is cleared.
real_disconnect_requests_first(st, p, stop) ==
    LET stopping == p.coordinator # NULL /\ p.vpn_stop # NULL
        nested == nm_vpn_service_plugin_disconnect(st, p, stop)
        q == IF stopping THEN [nested.priv EXCEPT !.coordinator = NULL] ELSE nested.priv
    IN  [priv |-> q,
         state |-> nested.state,
         ret |-> "TRUE",
         error |-> IF stopping /\ ~stop.ok THEN Err("Failed", stop.message) ELSE NoErr,
         stopArg |-> IF stopping THEN p.coordinator ELSE NULL,
         failures |-> nested.failures,
         calls |-> (IF stopping
                    THEN <<StopCall(p.coordinator)>>
                         \o (IF stop.ok THEN <<>> ELSE <<Call("free_err_string")>>)
                    ELSE <<>>)
                   \o <<Call("nm_vpn_service_plugin_disconnect")>> \o nested.calls
                   \o (IF stopping THEN <<Call("clear_coordinator")>> ELSE <<>>)]

\* real_disconnect, called by libnm in service state st; stop is the engine's
\* answer should vpn_stop be called: [ok, message].
real_disconnect(st, p, stop) ==
    LET stopping == p.coordinator # NULL /\ p.vpn_stop # NULL
        q == IF stopping THEN [p EXCEPT !.coordinator = NULL] ELSE p
        nested == nm_vpn_service_plugin_disconnect(st, q, stop)
    IN  [priv |-> nested.priv,
         state |-> nested.state,
         ret |-> "TRUE",
         error |-> IF stopping /\ ~stop.ok THEN Err("Failed", stop.message) ELSE NoErr,
         stopArg |-> IF stopping THEN p.coordinator ELSE NULL,
         failures |-> nested.failures,
         calls |-> (IF stopping
                    THEN <<StopCall(p.coordinator)>>
                         \o (IF stop.ok THEN <<>> ELSE <<Call("free_err_string")>>)
                         \o <<Call("clear_coordinator")>>
                    ELSE <<>>)
                   \o <<Call("nm_vpn_service_plugin_disconnect")>> \o nested.calls]

\* libnm: nm_vpn_service_plugin_disconnect in service state st.  The class
\* method runs in state STOPPING and the state is STOPPED after it.
nm_vpn_service_plugin_disconnect(st, p, stop) ==
    IF st \in {"STARTING", "STARTED"}
    THEN LET r == real_disconnect("STOPPING", p, stop)
         IN  [priv |-> r.priv, state |-> "STOPPED", ret |-> r.ret, error |-> r.error,
              stopArg |-> r.stopArg,
              failures |-> (IF st = "STARTING" THEN 1 ELSE 0) + r.failures,
              classCalled |-> TRUE, calls |-> r.calls]
    ELSE IF st = "INIT"
    THEN [priv |-> p, state |-> "STOPPED", ret |-> "TRUE", error |-> NoErr,
          stopArg |-> NULL, failures |-> 0, classCalled |-> FALSE,
          calls |-> <<>>]
    ELSE [priv |-> p, state |-> st, ret |-> "FALSE",
          error |-> Err(IF st = "STOPPING" THEN "StoppingInProgress" ELSE "AlreadyStopped", "none"),
          stopArg |-> NULL, failures |-> 0, classCalled |-> FALSE,
          calls |-> <<>>]

\* The result record of a nm_vpn_service_plugin_disconnect that was not made.
NotCalled(st, p) ==
    [priv |-> p, state |-> st, ret |-> "none", error |-> NoErr, stopArg |-> NULL,
     failures |-> 0, classCalled |-> FALSE, calls |-> <<>>]

\* ------------------------------------------------------- capture_error_idle
\* Mutant of capture_error_idle: the message is logged without aborting.
capture_error_idle_returns(d, st, p, stop) ==
    IF d.message.present
    THEN LET r == nm_vpn_service_plugin_disconnect(st, p, stop)
         IN  [priv |-> r.priv, state |-> r.state, failures |-> 1 + r.failures,
              disconnect |-> r, aborted |-> FALSE,
              calls |-> <<Call("nm_vpn_service_plugin_failure"),
                          Call("nm_vpn_service_plugin_disconnect")>>
                        \o r.calls \o <<Call("g_warning"), Call("free_message"), Call("g_free_data")>>]
    ELSE [priv |-> p, state |-> st, failures |-> 0,
          disconnect |-> NotCalled(st, p),
          aborted |-> FALSE,
          calls |-> <<Call("g_free_data")>>]

\* Mutant of capture_error_idle: the message pointer is not tested.
capture_error_idle_ignores_message(d, st, p, stop) ==
    LET r == nm_vpn_service_plugin_disconnect(st, p, stop)
    IN  [priv |-> r.priv, state |-> r.state, failures |-> 1 + r.failures,
         disconnect |-> r, aborted |-> TRUE,
         calls |-> <<Call("nm_vpn_service_plugin_failure"),
                     Call("nm_vpn_service_plugin_disconnect")>>
                   \o r.calls \o <<Call("g_error")>>]

\* Mutant of capture_error_idle: the failure is marked without requesting the
\* disconnect.
capture_error_idle_only_marks(d, st, p, stop) ==
    IF d.message.present
    THEN [priv |-> p, state |-> st, failures |-> 1,
          disconnect |-> NotCalled(st, p), aborted |-> TRUE,
          calls |-> <<Call("nm_vpn_service_plugin_failure"), Call("g_error")>>]
    ELSE [priv |-> p, state |-> st, failures |-> 0,
          disconnect |-> NotCalled(st, p),
          aborted |-> FALSE,
          calls |-> <<Call("g_free_data")>>]

\* The idle handler of an error event d = [message, session], run in service
\* state st.  g_error logs the message and aborts the process, so the lines
\* after it (free, g_free, return) are not reached when a message is present.
capture_error_idle(d, st, p, stop) ==
    IF d.message.present
    THEN LET r == nm_vpn_service_plugin_disconnect(st, p, stop)
         IN  [priv |-> r.priv, state |-> r.state, failures |-> 1 + r.failures,
              disconnect |-> r, aborted |-> TRUE,
              calls |-> <<Call("nm_vpn_service_plugin_failure"),
                          Call("nm_vpn_service_plugin_disconnect")>>
                        \o r.calls \o <<Call("g_error")>>]
    ELSE [priv |-> p, state |-> st, failures |-> 0,
          disconnect |-> NotCalled(st, p),
          aborted |-> FALSE,
          calls |-> <<Call("g_free_data")>>]

\* ------------------------------------------------------------ capture_error
\* Idle sources: the user data of a source and the handler it was added with.
\* seq numbers the error events in the order of their capture_error calls.
ConfigSource(cfg, session) ==
    [kind |-> "config", cfg |-> cfg, message |-> Absent, session |-> session, seq |-> 0]
ErrorSource(message, session, seq) ==
    [kind |-> "error", cfg |-> ZeroConfig, message |-> message, session |-> session, seq |-> seq]

\* Mutant of capture_error: the engine thread tears the session down itself.
capture_error_handles_inline(p, st, queue, message, session, seq) ==
    [priv |-> [p EXCEPT !.coordinator = NULL], state |-> "STOPPED",
     queue |-> Append(queue, ErrorSource(message, session, seq))]

\* capture_error(plugin_ptr, error), run on the calling engine thread with the
\* private state p, the service state st and the idle sources queue: it
\* allocates the event record and adds one idle source.
capture_error(p, st, queue, message, session, seq) ==
    [priv |-> p, state |-> st,
     queue |-> Append(queue, ErrorSource(message, session, seq))]

\* Mutant of ScheduleConfig: the configuration is delivered inside real_connect.
ScheduleConfigInline(queue, cfg, session) ==
    [queue |-> queue,
     calls |-> <<Call("nm_vpn_service_plugin_set_config"),
                 Call("nm_vpn_service_plugin_set_ip4_config"),
                 Call("g_free_cfg"), Call("g_free_certificate_data")>>]

\* real_connect from line 241 to its return: the record is handed to an idle
\* source and the certificate buffer is freed.
ScheduleConfig(queue, cfg, session) ==
    [queue |-> Append(queue, ConfigSource(cfg, session)),
     calls |-> <<Call("g_idle_add"), Call("g_free_certificate_data")>>]

\* ----------------------------------------------- seaside_set_vpnconfig_idle
\* Mutant of g_htonl: the value is passed on in host byte order.
g_htonl_identity(x) == x

\* g_htonl on a little-endian host: the four bytes of a 32-bit value reversed.
g_htonl(x) ==
    ((x % 256) * 16777216) + (((x \div 256) % 256) * 65536)
    + (((x \div 65536) % 256) * 256) + ((x \div 16777216) % 256)

Entry(present, key, value) == IF present THEN key :> value ELSE <<>>

\* Mutant of GeneralConfig: has-ip4 is added only with an external gateway.
GeneralConfigIp4WithGateway(cfg) ==
    Entry(cfg.tunnel_name # <<>>, "tundev", cfg.tunnel_name)
    @@ Entry(cfg.tunnel_mtu # 0, "mtu", cfg.tunnel_mtu)
    @@ Entry(cfg.remote_address # 0, "gateway", g_htonl(cfg.remote_address))
    @@ Entry(cfg.remote_address # 0, "has-ip4", TRUE)

\* The general configuration built in lines 122-145.
GeneralConfig(cfg) ==
    Entry(cfg.tunnel_name # <<>>, "tundev", cfg.tunnel_name)
    @@ Entry(cfg.tunnel_mtu # 0, "mtu", cfg.tunnel_mtu)
    @@ Entry(cfg.remote_address # 0, "gateway", g_htonl(cfg.remote_address))
    @@ Entry(TRUE, "has-ip4", TRUE)

\* Mutant of Ip4Config: the prefix is added only with an address.
Ip4ConfigPrefixWithAddress(cfg) ==
    Entry(cfg.tunnel_gateway # 0, "internal-gateway", g_htonl(cfg.tunnel_gateway))
    @@ Entry(cfg.tunnel_address # 0, "address", g_htonl(cfg.tunnel_address))
    @@ Entry(cfg.tunnel_address # 0 /\ cfg.tunnel_prefix # 0, "prefix", cfg.tunnel_prefix)
    @@ Entry(cfg.dns_address # 0, "dns", <<g_htonl(cfg.dns_address)>>)

\* Mutant of Ip4Config: the addresses are forwarded in host byte order.
Ip4ConfigHostOrder(cfg) ==
    Entry(cfg.tunnel_gateway # 0, "internal-gateway", cfg.tunnel_gateway)
    @@ Entry(cfg.tunnel_address # 0, "address", cfg.tunnel_address)
    @@ Entry(cfg.tunnel_prefix # 0, "prefix", cfg.tunnel_prefix)
    @@ Entry(cfg.dns_address # 0, "dns", <<cfg.dns_address>>)

\* The IPv4 configuration built in lines 147-175.
Ip4Config(cfg) ==
    Entry(cfg.tunnel_gateway # 0, "internal-gateway", g_htonl(cfg.tunnel_gateway))
    @@ Entry(cfg.tunnel_address # 0, "address", g_htonl(cfg.tunnel_address))
    @@ Entry(cfg.tunnel_prefix # 0, "prefix", cfg.tunnel_prefix)
    @@ Entry(cfg.dns_address # 0, "dns", <<g_htonl(cfg.dns_address)>>)

\* The host calls the idle handler makes for data = [cfg, session], in order.
seaside_set_vpnconfig_idle(data) ==
    << [f |-> "nm_vpn_service_plugin_set_config", config |-> GeneralConfig(data.cfg)],
       [f |-> "nm_vpn_service_plugin_set_ip4_config", config |-> Ip4Config(data.cfg)],
       [f |-> "g_free_cfg", config |-> <<>>],
       [f |-> "g_free_data", config |-> <<>>] >>

VARIABLES
    priv,           \* NMSeasidePluginPrivate: lib_handle, coordinator, vpn_start, vpn_stop
    nmState,        \* service state of the NMVpnServicePlugin parent object
    idleQueue,      \* idle sources added with g_idle_add, in dispatch order
    pc,             \* host thread: "loop", "connect" (in real_connect after vpn_start), "aborted"
    pending,        \* the cfg local of a real_connect that is between vpn_start and g_idle_add
    running,        \* engine sessions started and not yet passed to vpn_stop
    started,        \* number of sessions the engine has started
    reports,        \* number of capture_error calls made so far
    connects,       \* number of Connect requests made so far
    stopCalls,      \* stopCalls[h]: number of vpn_stop calls made with handle h
    failures,       \* number of failure signals emitted to the host
    delivered,      \* delivered[h]: host configuration calls made for session h, in order
    lastOp,         \* the class method called last: "none", "connect", "disconnect"
    connectCall,    \* the real_connect call of the latest step: inputs, calls made, result
    disconnectCall, \* the real_disconnect call of the latest step: calls made, result
    errorCall,      \* the capture_error_idle run of the latest step
    deliveryCall,   \* the seaside_set_vpnconfig_idle run of the latest step
    teardowns,      \* number of capture_error_idle runs that marked failure and requested disconnect
    handled,        \* number of capture_error_idle runs so far
    signals,        \* signals[h]: failure marks and disconnect requests made by the handlers of session h's events
    editor,         \* SeasideEditorPrivate of the open editor, and the file it embedded last
    saved           \* the connection the editor saved, and the file embedded in it

vars ==
    <<priv, nmState, idleQueue, pc, pending, running, started, reports, connects,
      stopCalls, failures, delivered, lastOp, connectCall, disconnectCall, errorCall,
      deliveryCall, teardowns, handled, signals, editor, saved>>

NoPending == [active |-> FALSE, cfg |-> ZeroConfig, session |-> NULL]
NoConnect ==
    [called |-> FALSE, connection |-> Connection(FALSE, Absent, Absent, Absent),
     env |-> LibraryFound, start |-> [ok |-> FALSE, message |-> "none", handle |-> NULL],
     before |-> NULL, calls |-> <<>>, ret |-> "none", error |-> NoErr]
NoDisconnect ==
    [called |-> FALSE, before |-> NULL, calls |-> <<>>, ret |-> "none", error |-> NoErr,
     repeated |-> FALSE]
NoError ==
    [called |-> FALSE, message |-> Absent, session |-> NULL, seq |-> 0, before |-> NULL,
     calls |-> <<>>, finished |-> FALSE]
NoDelivery == [called |-> FALSE, session |-> NULL, cfg |-> ZeroConfig, calls |-> <<>>]
\* No editor is open: the private structure of a SeasideEditor is zero-filled
\* at construction (seaside_editor_init is empty).
NoEditor ==
    [open |-> FALSE, certificate_filedata |-> Absent, protocol_name |-> Absent,
     embedded |-> Absent]
NoSaved ==
    [present |-> FALSE, connection |-> Connection(FALSE, Absent, Absent, Absent),
     embedded |-> Absent]

\* nm_seaside_plugin_init and the state of a freshly started plugin process.
Init ==
    /\ priv = [lib_handle |-> NULL, coordinator |-> NULL, vpn_start |-> NULL, vpn_stop |-> NULL]
    /\ nmState = "INIT"
    /\ idleQueue = <<>>
    /\ pc = "loop"
    /\ pending = NoPending
    /\ running = {}
    /\ started = 0
    /\ reports = 0
    /\ connects = 0
    /\ stopCalls = [h \in Sessions |-> 0]
    /\ failures = 0
    /\ delivered = [h \in Sessions |-> <<>>]
    /\ lastOp = "none"
    /\ connectCall = NoConnect
    /\ disconnectCall = NoDisconnect
    /\ errorCall = NoError
    /\ deliveryCall = NoDelivery
    /\ teardowns = 0
    /\ handled = 0
    /\ signals = [h \in Sessions |-> [failure |-> 0, disconnect |-> 0]]
    /\ editor = NoEditor
    /\ saved = NoSaved

\* The host's Connect request: libnm accepts it in INIT and STOPPED and calls
\* real_connect, which runs up to the return of vpn_start.
Connect(connections, configs) ==
    /\ pc = "loop"
    /\ nmState \in {"INIT", "STOPPED"}
    /\ connects < MaxConnects
    /\ \E c \in connections :
       \E env \in (IF c.certificate.present /\ c.protocol.present /\ priv.lib_handle = NULL
                   THEN LibraryEnvs ELSE {LibraryFound}) :
       \E answer \in (IF c.certificate.present /\ c.protocol.present THEN Answers ELSE {Success}) :
       \E cfg \in (IF answer.ok THEN configs ELSE {ZeroConfig}) :
          /\ LET start == [ok |-> answer.ok, message |-> answer.message, handle |-> started + 1]
                 r == real_connect(priv, c.s_vpn, c.certificate, c.certifile, c.protocol, env, start)
             IN  /\ priv' = r.priv
                 /\ connectCall' =
                        [called |-> TRUE, connection |-> c, env |-> env,
                         start |-> IF Made(r.calls, "vpn_start") THEN start ELSE NoConnect.start,
                         before |-> priv.coordinator,
                         calls |-> r.calls,
                         ret |-> IF r.ret = "started" THEN "pending" ELSE "FALSE",
                         error |-> r.error]
                 /\ IF r.ret = "started"
                    THEN /\ pc' = "connect"
                         /\ pending' = [active |-> TRUE, cfg |-> cfg, session |-> start.handle]
                         /\ running' = running \cup {start.handle}
                         /\ started' = started + 1
                    ELSE UNCHANGED <<pc, pending, running, started>>
    /\ connects' = connects + 1
    /\ lastOp' = "connect"
    /\ disconnectCall' = NoDisconnect
    /\ errorCall' = NoError
    /\ deliveryCall' = NoDelivery
    /\ UNCHANGED <<nmState, idleQueue, reports, stopCalls, failures, delivered, teardowns,
                   handled, signals, editor, saved>>

HostConnect == Connect(Connections, StartConfigs)

\* real_connect from line 241 to its return, and libnm setting STARTING.
ConnectReturn ==
    /\ pc = "connect"
    /\ LET r == ScheduleConfig(idleQueue, pending.cfg, pending.session)
       IN  /\ idleQueue' = r.queue
           /\ connectCall' = [connectCall EXCEPT !.ret = "TRUE", !.calls = @ \o r.calls]
    /\ nmState' = "STARTING"
    /\ pending' = NoPending
    /\ pc' = "loop"
    /\ UNCHANGED <<priv, running, started, reports, connects, stopCalls, failures,
                   delivered, lastOp, disconnectCall, errorCall, deliveryCall, teardowns,
                   handled, signals, editor, saved>>

\* capture_error, called on an engine thread of a running session.
CaptureError ==
    /\ pc # "aborted"
    /\ reports < MaxReports
    /\ \E session \in running, message \in ReportMessages :
          LET r == capture_error(priv, nmState, idleQueue, message, session, reports + 1)
          IN  /\ priv' = r.priv
              /\ nmState' = r.state
              /\ idleQueue' = r.queue
    /\ reports' = reports + 1
    /\ connectCall' = IF pc = "connect" THEN connectCall ELSE NoConnect
    /\ disconnectCall' = NoDisconnect
    /\ errorCall' = NoError
    /\ deliveryCall' = NoDelivery
    /\ UNCHANGED <<pc, pending, running, started, connects, stopCalls,
                   failures, delivered, lastOp, teardowns, handled, signals, editor, saved>>

\* Whether a disconnect made now can reach the engine, so that the engine's
\* answer to vpn_stop matters.
StopReachable == nmState \in {"STARTING", "STARTED"} /\ priv.coordinator # NULL

\* What a run of nm_vpn_service_plugin_disconnect with result r changes.
DisconnectEffects(r) ==
    /\ priv' = r.priv
    /\ nmState' = r.state
    /\ stopCalls' = IF r.stopArg # NULL THEN [stopCalls EXCEPT ![r.stopArg] = @ + 1] ELSE stopCalls
    /\ running' = running \ {r.stopArg}
    /\ disconnectCall' =
           IF r.classCalled
           THEN [called |-> TRUE, before |-> priv.coordinator, calls |-> r.calls,
                 ret |-> r.ret, error |-> r.error, repeated |-> lastOp = "disconnect"]
           ELSE NoDisconnect
    /\ lastOp' = IF r.classCalled THEN "disconnect" ELSE lastOp

\* The host's Disconnect request.
HostDisconnect ==
    /\ pc = "loop"
    /\ \E stop \in (IF StopReachable THEN Answers ELSE {Success}) :
          LET r == nm_vpn_service_plugin_disconnect(nmState, priv, stop)
          IN  /\ DisconnectEffects(r)
              /\ failures' = failures + r.failures
    /\ connectCall' = NoConnect
    /\ errorCall' = NoError
    /\ deliveryCall' = NoDelivery
    /\ UNCHANGED <<idleQueue, pc, pending, started, reports, connects, delivered, teardowns,
                   handled, signals, editor, saved>>

\* The main loop dispatches the idle source of an error event.
CaptureErrorIdle ==
    /\ pc = "loop"
    /\ idleQueue # <<>>
    /\ Head(idleQueue).kind = "error"
    /\ \E stop \in (IF StopReachable /\ Head(idleQueue).message.present
                    THEN Answers ELSE {Success}) :
          LET d == Head(idleQueue)
              r == capture_error_idle(d, nmState, priv, stop)
          IN  /\ DisconnectEffects(r.disconnect)
              /\ failures' = failures + r.failures
              /\ signals' = [signals EXCEPT ![d.session] =
                                 [failure |-> @.failure + Count(r.calls, "nm_vpn_service_plugin_failure"),
                                  disconnect |-> @.disconnect
                                                 + (IF r.disconnect.ret = "none" THEN 0 ELSE 1)]]
              /\ teardowns' = IF Made(r.calls, "nm_vpn_service_plugin_failure")
                                 /\ Made(r.calls, "nm_vpn_service_plugin_disconnect")
                              THEN teardowns + 1 ELSE teardowns
              /\ pc' = IF r.aborted THEN "aborted" ELSE "loop"
              /\ errorCall' = [called |-> TRUE, message |-> d.message, session |-> d.session,
                               seq |-> d.seq, before |-> priv.coordinator,
                               calls |-> r.calls, finished |-> ~r.aborted]
    /\ handled' = handled + 1
    /\ idleQueue' = Tail(idleQueue)
    /\ connectCall' = NoConnect
    /\ deliveryCall' = NoDelivery
    /\ UNCHANGED <<pending, started, reports, connects, delivered, editor, saved>>

\* The main loop dispatches the idle source of a configuration delivery;
\* libnm's set_ip4_config sets the service state STARTED.
SetVpnConfigIdle ==
    /\ pc = "loop"
    /\ idleQueue # <<>>
    /\ Head(idleQueue).kind = "config"
    /\ LET data == Head(idleQueue)
           calls == seaside_set_vpnconfig_idle(data)
       IN  /\ delivered' = [delivered EXCEPT
                               ![data.session] = @ \o [i \in 1..Len(calls) |-> calls[i].f]]
           /\ deliveryCall' = [called |-> TRUE, session |-> data.session, cfg |-> data.cfg,
                               calls |-> calls]
    /\ nmState' = "STARTED"
    /\ idleQueue' = Tail(idleQueue)
    /\ connectCall' = NoConnect
    /\ disconnectCall' = NoDisconnect
    /\ errorCall' = NoError
    /\ UNCHANGED <<priv, pc, pending, running, started, reports, connects, stopCalls,
                   failures, lastOp, teardowns, handled, signals, editor, saved>>

Next ==
    \/ HostConnect
    \/ ConnectReturn
    \/ CaptureError
    \/ HostDisconnect
    \/ CaptureErrorIdle
    \/ SetVpnConfigIdle

Spec == Init /\ [][Next]_vars

\* ------------------------------------------------- configuration translation
\* The sessions in which the engine may return any record of ConfigRecords:
\* a Connect request for a connection with an embedded certificate, the
\* return of real_connect and the dispatch of the configuration idle source.
TranslateConnect ==
    Connect({Connection(TRUE, Item(EmbeddedCertificate), Absent, Item(ProtocolName))}, ConfigRecords)

TranslateNext ==
    \/ TranslateConnect
    \/ ConnectReturn
    \/ SetVpnConfigIdle

TranslateSpec == Init /\ [][TranslateNext]_vars

\* ------------------------------------------------- the connection editor
\* "typhoon" (NM_SEASIDE_PROTOCOL_DEFAULT); "port" is ProtocolName.
TyphoonName == <<116, 121, 112, 104, 111, 111, 110>>
\* "x", a protocol name the editor does not know.
UnknownProtocol == <<120>>

\* The certificate files the user can choose: every byte sequence of up to
\* MaxFileLen bytes over a zero byte, a letter and the byte 0xff.
FileBytes == {0, 65, 255}
Files == UNION {[1..n -> FileBytes] : n \in 0..MaxFileLen}

\* What the file chooser dialog and g_file_get_contents hand to
\* choose_certificate_cb: the dialog's response, whether the file could be
\* read, and its contents.
Choice(response, readable, contents) ==
    [response |-> response, readable |-> readable, contents |-> contents]
Choices ==
    {Choice("cancel", FALSE, <<>>), Choice("accept", FALSE, <<>>)}
    \cup {Choice("accept", TRUE, f) : f \in Files}

\* A variant of Base64Char with the URL-safe characters '-' and '_' for the
\* values 62 and 63.
Base64CharUrlSafe(v) ==
    CASE v < 26 -> 65 + v
      [] v >= 26 /\ v < 52 -> 97 + (v - 26)
      [] v >= 52 /\ v < 62 -> 48 + (v - 52)
      [] v = 62 -> 45
      [] OTHER -> 95

\* base64_alphabet of GLib: the character of a 6-bit value.
Base64Char(v) ==
    CASE v < 26 -> 65 + v
      [] v >= 26 /\ v < 52 -> 97 + (v - 26)
      [] v >= 52 /\ v < 62 -> 48 + (v - 52)
      [] v = 62 -> 43
      [] OTHER -> 47

\* g_base64_encode(data, len): four characters for every three bytes, the
\* last group padded with '=' (61), no line breaks, the empty text for no
\* bytes.
RECURSIVE g_base64_encode(_)
g_base64_encode(data) ==
    IF Len(data) = 0
    THEN <<>>
    ELSE IF Len(data) = 1
    THEN << Base64Char(data[1] \div 4),
            Base64Char((data[1] % 4) * 16),
            61, 61 >>
    ELSE IF Len(data) = 2
    THEN << Base64Char(data[1] \div 4),
            Base64Char(((data[1] % 4) * 16) + (data[2] \div 16)),
            Base64Char((data[2] % 16) * 4),
            61 >>
    ELSE << Base64Char(data[1] \div 4),
            Base64Char(((data[1] % 4) * 16) + (data[2] \div 16)),
            Base64Char(((data[2] % 16) * 4) + (data[3] \div 64)),
            Base64Char(data[3] % 64) >>
         \o g_base64_encode(SubSeq(data, 4, Len(data)))

\* init_editor_plugin: the private fields after construction for a
\* connection.  Without a VPN setting both stay NULL; with one, the
\* certificate item is copied as it is and the protocol item must be
\* "typhoon" or "port", "typhoon" being taken when it is absent.  The user
\* interface resource is taken to load.
init_editor_plugin(connection) ==
    IF ~connection.s_vpn
    THEN [ret |-> TRUE, certificate_filedata |-> Absent, protocol_name |-> Absent]
    ELSE IF connection.protocol.present
            /\ connection.protocol.value \notin {TyphoonName, ProtocolName}
    THEN [ret |-> FALSE, certificate_filedata |-> connection.certificate,
          protocol_name |-> Absent]
    ELSE [ret |-> TRUE, certificate_filedata |-> connection.certificate,
          protocol_name |-> IF connection.protocol.present
                            THEN connection.protocol
                            ELSE Item(TyphoonName)]

\* choose_certificate_cb: a cancelled dialog or an unreadable file leaves the
\* certificate as it was; otherwise the base64 text of the file's contents
\* replaces it.
choose_certificate_cb(e, choice) ==
    IF choice.response # "accept"
    THEN e
    ELSE IF ~choice.readable
    THEN e
    ELSE [e EXCEPT !.certificate_filedata = Item(g_base64_encode(choice.contents)),
                   !.embedded = Item(choice.contents)]

\* change_protocol_cb: with both radio buttons active nothing changes;
\* otherwise the name of the active one is stored.  With neither active the
\* field keeps its pointer.
change_protocol_cb(e, typhoon_active, port_active) ==
    IF typhoon_active /\ port_active
    THEN e
    ELSE IF typhoon_active
    THEN [e EXCEPT !.protocol_name = Item(TyphoonName)]
    ELSE IF port_active
    THEN [e EXCEPT !.protocol_name = Item(ProtocolName)]
    ELSE e

check_validity(e) == e.certificate_filedata.present /\ e.protocol_name.present

\* nm_setting_vpn_add_data_item: a NULL item removes the key, a string is
\* stored under it.
nm_setting_vpn_add_data_item(setting, key, item) ==
    IF ~item.present
    THEN [setting EXCEPT ![key] = Absent]
    ELSE [setting EXCEPT ![key] = Item(item.value)]

\* update_connection: refused when check_validity fails; otherwise a new VPN
\* setting with the three items replaces the connection's one.
update_connection(e) ==
    IF ~check_validity(e)
    THEN [ret |-> FALSE, connection |-> Connection(FALSE, Absent, Absent, Absent)]
    ELSE LET s0 == Connection(TRUE, Absent, Absent, Absent)
             s1 == nm_setting_vpn_add_data_item(s0, "certifile", Absent)
             s2 == nm_setting_vpn_add_data_item(s1, "certificate", e.certificate_filedata)
             s3 == nm_setting_vpn_add_data_item(s2, "protocol", e.protocol_name)
         IN  [ret |-> TRUE, connection |-> s3]

\* The connections an editor is opened for: the ones of Connections, a
\* connection as the editor saves it, and one with an unknown protocol name.
EditorConnections ==
    Connections
    \cup { Connection(TRUE, Item(EmbeddedCertificate), Absent, Item(TyphoonName)),
           Connection(TRUE, Item(EmbeddedCertificate), Absent, Item(UnknownProtocol)) }

PluginVars ==
    <<priv, nmState, idleQueue, pc, pending, running, started, reports, connects,
      stopCalls, failures, delivered, lastOp, connectCall, disconnectCall, errorCall,
      deliveryCall, teardowns, handled, signals>>

\* create_seaside_editor: the editor is constructed for a connection; no
\* editor object exists when init_editor_plugin fails.
EditorOpen ==
    /\ ~editor.open
    /\ ~saved.present
    /\ \E c \in EditorConnections :
          LET r == init_editor_plugin(c)
          IN  editor' = IF r.ret
                        THEN [open |-> TRUE, certificate_filedata |-> r.certificate_filedata,
                              protocol_name |-> r.protocol_name, embedded |-> Absent]
                        ELSE NoEditor
    /\ UNCHANGED saved
    /\ UNCHANGED PluginVars

\* The user clicks the certificate button.
ChooseCertificate ==
    /\ editor.open
    /\ \E choice \in Choices : editor' = choose_certificate_cb(editor, choice)
    /\ UNCHANGED saved
    /\ UNCHANGED PluginVars

\* A radio button of the protocol group is toggled; the two buttons form one
\* group, so at least one of them is active when the handler runs.
ChangeProtocol ==
    /\ editor.open
    /\ \E active \in {<<TRUE, FALSE>>, <<FALSE, TRUE>>, <<TRUE, TRUE>>} :
          editor' = change_protocol_cb(editor, active[1], active[2])
    /\ UNCHANGED saved
    /\ UNCHANGED PluginVars

\* The user saves: the host calls update_connection, stores the connection
\* when it returned TRUE and disposes of the editor.
UpdateConnection ==
    /\ editor.open
    /\ LET r == update_connection(editor)
       IN  IF r.ret
           THEN /\ saved' = [present |-> TRUE, connection |-> r.connection,
                             embedded |-> editor.embedded]
                /\ editor' = NoEditor
           ELSE UNCHANGED <<editor, saved>>
    /\ UNCHANGED PluginVars

\* The host connects the saved connection.
EditorConnect ==
    /\ saved.present
    /\ Connect({saved.connection}, {ZeroConfig})

EditorNext ==
    \/ EditorOpen
    \/ ChooseCertificate
    \/ ChangeProtocol
    \/ UpdateConnection
    \/ EditorConnect
    \/ ConnectReturn

EditorSpec == Init /\ [][EditorNext]_vars

\* ====================================================================
\* Properties
\* ====================================================================

StartInvoked == Made(connectCall.calls, "vpn_start")
StopInvoked == Made(disconnectCall.calls, "vpn_stop")
EmptyOrAbsent(item) == ~item.present \/ item.value = EmptyString

\* C1: a connect whose certificate or protocol item is absent or empty returns
\* the bad-arguments error and does not call vpn_start.
C1_EmptyOrAbsentRejected ==
    ( /\ connectCall.called
      /\ connectCall.connection.s_vpn
      /\ \/ EmptyOrAbsent(connectCall.connection.certificate)
         \/ EmptyOrAbsent(connectCall.connection.protocol) )
    => /\ connectCall.error.code = "BadArguments"
       /\ ~StartInvoked

\* C2: every real_disconnect call returns TRUE, and a call that follows
\* another real_disconnect call with no real_connect call in between finds no
\* handle stored and does not call vpn_stop.
C2_DisconnectIdempotent ==
    disconnectCall.called =>
        /\ disconnectCall.ret = "TRUE"
        /\ disconnectCall.repeated => (disconnectCall.before = NULL /\ ~StopInvoked)

C2_Witness ==
    /\ disconnectCall.called
    /\ disconnectCall.repeated
    /\ disconnectCall.ret = "TRUE"
    /\ stopCalls[1] = 1

C4_StopAtMostOnce == \A h \in Sessions : stopCalls[h] <= 1

C4_Witness ==
    \E h \in Sessions :
        /\ stopCalls[h] = 1
        /\ errorCall.called
        /\ errorCall.message.present
        /\ errorCall.session = h
        /\ ~Made(errorCall.calls, "vpn_stop")

\* C5: at most one engine session is started and not yet passed to vpn_stop,
\* the stored handle is that session, and vpn_start is called only while no
\* handle is stored.
C5_OneSession ==
    /\ Cardinality(running) <= 1
    /\ priv.coordinator # NULL => running = {priv.coordinator}
    /\ (connectCall.called /\ StartInvoked) => connectCall.before = NULL

C5_Witness ==
    /\ connectCall.called
    /\ StartInvoked
    /\ connectCall.start.ok
    /\ connectCall.start.handle = 2
    /\ stopCalls[1] = 1

\* The session state of the specification, read from the plugin's state.
C6_SessionState ==
    IF priv.coordinator # NULL
    THEN IF pc = "connect" THEN "Starting" ELSE "Running"
    ELSE IF started = 0 THEN "Idle" ELSE "Terminated"

C6_Allowed(a, b) ==
    \/ a = b
    \/ <<a, b>> \in { <<"Idle", "Starting">>, <<"Starting", "Running">>,
                      <<"Running", "Terminated">>, <<"Terminated", "Starting">> }

\* C6: the session state moves only Idle -> Starting -> Running -> Terminated
\* -> Starting; Starting is entered only by a vpn_start that succeeded, Running
\* only by the return of that connect, and vpn_stop is called only for the
\* handle of the Running session.
C6_Lifecycle ==
    [][ /\ C6_Allowed(C6_SessionState, C6_SessionState')
        /\ (C6_SessionState' = "Starting" /\ C6_SessionState # "Starting")
               => (connectCall'.start.ok /\ priv'.coordinator = connectCall'.start.handle)
        /\ (C6_SessionState' = "Running" /\ C6_SessionState # "Running")
               => connectCall'.ret = "TRUE"
        /\ stopCalls' # stopCalls
               => /\ C6_SessionState = "Running"
                  /\ C6_SessionState' = "Terminated"
                  /\ priv.coordinator \in 1..started
                  /\ stopCalls' = [stopCalls EXCEPT ![priv.coordinator] = @ + 1]
      ]_vars

C6_Witness ==
    /\ C6_SessionState = "Running"
    /\ started = 2
    /\ stopCalls[1] = 1

UpdateCalls(h) ==
    SelectSeq(delivered[h],
              LAMBDA f : f \in {"nm_vpn_service_plugin_set_config",
                                "nm_vpn_service_plugin_set_ip4_config"})

\* C7: when no idle work is left, every connect that returned success has been
\* followed by exactly one general update and then one IPv4 update, and no
\* other connect by any.
C7_ExactlyOneDelivery ==
    (pc # "connect" /\ (idleQueue = <<>> \/ pc = "aborted")) =>
        \A h \in Sessions :
            UpdateCalls(h) = IF h <= started
                             THEN <<"nm_vpn_service_plugin_set_config",
                                    "nm_vpn_service_plugin_set_ip4_config">>
                             ELSE <<>>

C8_StartFailed == connectCall.called /\ StartInvoked /\ ~connectCall.start.ok

\* C8: a connect whose vpn_start failed returns FALSE with LaunchFailed and
\* the engine's message, leaves no handle stored and the service state as it
\* was, schedules no configuration delivery, and the step that follows it
\* does not call vpn_stop.
C8_StartFailure ==
    /\ [](C8_StartFailed =>
            /\ connectCall.ret = "FALSE"
            /\ connectCall.error = Err("LaunchFailed", connectCall.start.message)
            /\ priv.coordinator = NULL
            /\ pc = "loop"
            /\ nmState \in {"INIT", "STOPPED"}
            /\ ~Made(connectCall.calls, "g_idle_add")
            /\ \A i \in 1..Len(idleQueue) :
                   idleQueue[i].kind = "config" => idleQueue[i].session <= started)
    /\ [][C8_StartFailed => stopCalls' = stopCalls]_vars

C8_Witness == C8_StartFailed /\ connectCall.start.message = "timeout"

C9_Unusable(env) == ~env.found \/ env.exports # {"vpn_start", "vpn_stop"}

\* C9: a connect that tries to load a module that is missing or lacks an entry
\* point fails with LaunchFailed without calling vpn_start; vpn_start is called
\* and a session runs only with the module loaded and both entry points
\* resolved.
C9_LoadFailure ==
    /\ (connectCall.called /\ Made(connectCall.calls, "dlopen") /\ C9_Unusable(connectCall.env))
           => /\ connectCall.ret = "FALSE"
              /\ connectCall.error.code = "LaunchFailed"
              /\ ~StartInvoked
    /\ ((connectCall.called /\ StartInvoked) \/ running # {})
           => /\ priv.lib_handle # NULL
              /\ priv.vpn_start # NULL
              /\ priv.vpn_stop # NULL

C9_Witness ==
    /\ connectCall.called
    /\ Made(connectCall.calls, "dlopen")
    /\ connectCall.env.found
    /\ connectCall.env.exports = {"vpn_start"}
    /\ connectCall.error.code = "LaunchFailed"

C10_StartMissing ==
    /\ connectCall.called
    /\ Made(connectCall.calls, "dlopen")
    /\ connectCall.env.found
    /\ connectCall.env.exports = {"vpn_stop"}

\* C10 as stated: with vpn_stop exported and vpn_start missing, connect fails
\* with LaunchFailed and makes no attempt to unload the module.
C10_NoUnload ==
    C10_StartMissing =>
        /\ connectCall.error.code = "LaunchFailed"
        /\ ~Made(connectCall.calls, "dlclose")

\* C10 amended: with vpn_stop exported and vpn_start missing, connect fails
\* with LaunchFailed without calling vpn_start, unloads the module with one
\* dlclose and resets the module handle to NULL.
C10_UnloadOnMissingSymbol ==
    C10_StartMissing =>
        /\ connectCall.ret = "FALSE"
        /\ connectCall.error.code = "LaunchFailed"
        /\ ~StartInvoked
        /\ Count(connectCall.calls, "dlclose") = 1
        /\ priv.lib_handle = NULL

C10_Witness == C10_StartMissing /\ priv.lib_handle = NULL /\ priv.vpn_stop # NULL

C12_NoUnloadWhileActive ==
    /\ (connectCall.called /\ Made(connectCall.calls, "dlclose"))
           => /\ connectCall.before = NULL
              /\ priv.coordinator = NULL
              /\ running = {}
    /\ (priv.coordinator # NULL \/ running # {}) => priv.lib_handle # NULL

C12_Witness ==
    /\ connectCall.called
    /\ Made(connectCall.calls, "dlclose")
    /\ connects = 2
    /\ priv.coordinator = NULL

C13_StopHandles ==
    {disconnectCall.calls[i].handle :
        i \in {j \in 1..Len(disconnectCall.calls) : disconnectCall.calls[j].f = "vpn_stop"}}

\* C13: a real_disconnect that finds a handle stored calls vpn_stop once, with
\* that handle; whether vpn_stop succeeded or not, after it no handle is
\* stored, the service is STOPPED and real_disconnect has marked no failure.
C13_DisconnectClears ==
    (disconnectCall.called /\ disconnectCall.before # NULL) =>
        /\ Count(disconnectCall.calls, "vpn_stop") = 1
        /\ C13_StopHandles = {disconnectCall.before}
        /\ priv.coordinator = NULL
        /\ nmState = "STOPPED"
        /\ ~Made(disconnectCall.calls, "nm_vpn_service_plugin_failure")

C13_Witness ==
    /\ disconnectCall.called
    /\ disconnectCall.before = 1
    /\ ~errorCall.called
    /\ Made(disconnectCall.calls, "free_err_string")
    /\ priv.coordinator = NULL

\* C14: a real_disconnect whose vpn_stop call failed returns an error result
\* (FALSE with the Failed error carrying the engine's message), and the
\* teardown is complete: no handle stored and the service STOPPED.
C14_StopFailureReported ==
    ( /\ disconnectCall.called
      /\ Made(disconnectCall.calls, "vpn_stop")
      /\ Made(disconnectCall.calls, "free_err_string") )
    => /\ disconnectCall.ret = "FALSE"
       /\ disconnectCall.error.code = "Failed"
       /\ disconnectCall.error.message \in EngineMessages
       /\ priv.coordinator = NULL
       /\ nmState = "STOPPED"

\* C15: the k-th capture_error_idle run handles the k-th event enqueued, and
\* when the host has no error event left to dispatch or the process has
\* ended, every enqueued event has been handled.
C15_ExactlyOnceInOrder ==
    /\ errorCall.called => errorCall.seq = handled
    /\ (pc = "aborted" \/ \A i \in 1..Len(idleQueue) : idleQueue[i].kind # "error")
           => handled = reports

C16_First(f) ==
    CHOOSE i \in 1..Len(errorCall.calls) :
        /\ errorCall.calls[i].f = f
        /\ \A j \in 1..(i - 1) : errorCall.calls[j].f # f

\* C16: the handler of an event with a message marks the failure, requests
\* the disconnect, reports the message and frees the message buffer, in this
\* order and each once, and returns.
C16_FourSteps ==
    (errorCall.called /\ errorCall.message.present) =>
        /\ Count(errorCall.calls, "nm_vpn_service_plugin_failure") = 1
        /\ Made(errorCall.calls, "nm_vpn_service_plugin_disconnect")
        /\ Count(errorCall.calls, "g_error") = 1
        /\ Count(errorCall.calls, "free_message") = 1
        /\ C16_First("nm_vpn_service_plugin_failure") < C16_First("nm_vpn_service_plugin_disconnect")
        /\ C16_First("nm_vpn_service_plugin_disconnect") < C16_First("g_error")
        /\ C16_First("g_error") < C16_First("free_message")
        /\ errorCall.finished

\* C17: the handler of an event without a message leaves the private state,
\* the service state, the failure signals, the vpn_stop calls and the running
\* sessions as they were; it only frees the event record and returns.
C17_CleanExitFrame ==
    [][ (handled' # handled /\ ~errorCall'.message.present) =>
            /\ priv' = priv
            /\ nmState' = nmState
            /\ failures' = failures
            /\ stopCalls' = stopCalls
            /\ running' = running
            /\ signals' = signals
            /\ teardowns' = teardowns
            /\ errorCall'.calls = <<Call("g_free_data")>>
            /\ errorCall'.finished
            /\ pc' = "loop"
      ]_vars

C17_Witness ==
    /\ errorCall.called
    /\ ~errorCall.message.present
    /\ priv.coordinator # NULL
    /\ nmState = "STARTED"

\* C18: a capture_error call appends one error source to the idle queue and
\* changes nothing else: the private state (handle and entry points), the
\* service state, the host thread's position, the vpn_stop calls, the failure
\* signals and the handled events are as before, so every change of those is
\* made by a step of the host thread.
C18_EnqueueOnly ==
    [][ /\ reports' # reports =>
               /\ priv' = priv
               /\ nmState' = nmState
               /\ pc' = pc
               /\ stopCalls' = stopCalls
               /\ failures' = failures
               /\ handled' = handled
               /\ running' = running
               /\ Len(idleQueue') = Len(idleQueue) + 1
               /\ SubSeq(idleQueue', 1, Len(idleQueue)) = idleQueue
               /\ idleQueue'[Len(idleQueue')].kind = "error"
        /\ (priv' # priv \/ nmState' # nmState) => reports' = reports
      ]_vars

C18_Witness ==
    /\ pc = "connect"
    /\ idleQueue # <<>>
    /\ idleQueue[Len(idleQueue)].kind = "error"
    /\ idleQueue[Len(idleQueue)].session = pending.session
    /\ priv.coordinator = pending.session

C20_StopHandles ==
    {errorCall.calls[i].handle :
        i \in {j \in 1..Len(errorCall.calls) : errorCall.calls[j].f = "vpn_stop"}}

\* C20: the handler of an event with a message that finds a handle stored
\* makes the teardown real_disconnect makes (one vpn_stop call with that
\* handle, then no handle stored and the service STOPPED) and has marked the
\* failure.
C20_FailureTeardown ==
    (errorCall.called /\ errorCall.message.present /\ errorCall.before # NULL) =>
        /\ Count(errorCall.calls, "vpn_stop") = 1
        /\ C20_StopHandles = {errorCall.before}
        /\ Made(errorCall.calls, "clear_coordinator")
        /\ priv.coordinator = NULL
        /\ nmState = "STOPPED"
        /\ Count(errorCall.calls, "nm_vpn_service_plugin_failure") = 1
        /\ failures >= 1

C20_Witness ==
    /\ errorCall.called
    /\ errorCall.message.present
    /\ errorCall.before = 2
    /\ stopCalls[2] = 1
    /\ stopCalls[1] = 1

C21_StopFailed ==
    /\ disconnectCall.called
    /\ Made(disconnectCall.calls, "vpn_stop")
    /\ Made(disconnectCall.calls, "free_err_string")

\* C21: a real_connect call makes at most one vpn_start call and a
\* real_disconnect call at most one vpn_stop call; after a failed vpn_start the
\* next vpn_start call is made by a new Connect request, and the step after a
\* failed vpn_stop makes no vpn_stop call.
C21_NoRetry ==
    /\ [](/\ Count(connectCall.calls, "vpn_start") <= 1
          /\ Count(disconnectCall.calls, "vpn_stop") <= 1
          /\ Count(errorCall.calls, "vpn_stop") <= 1
          /\ C21_StopFailed => priv.coordinator = NULL)
    /\ [][ /\ C8_StartFailed =>
                  (Made(connectCall'.calls, "vpn_start") => connects' = connects + 1)
           /\ C21_StopFailed => stopCalls' = stopCalls
         ]_vars

C21_Witness ==
    /\ C8_StartFailed
    /\ connects = 2
    /\ stopCalls[1] = 1

StartCalls ==
    {connectCall.calls[i] :
        i \in {j \in 1..Len(connectCall.calls) : connectCall.calls[j].f = "vpn_start"}}

\* C22: the handle stored is the one the latest successful vpn_start returned,
\* and every vpn_stop call passes that handle.
C22_HandleUnaltered ==
    /\ priv.coordinator # NULL => priv.coordinator = started
    /\ (connectCall.called /\ StartInvoked /\ connectCall.start.ok)
           => (priv.coordinator = connectCall.start.handle /\ connectCall.start.handle = started)
    /\ (disconnectCall.called /\ StopInvoked) => C13_StopHandles = {started}

C22_Witness ==
    /\ disconnectCall.called
    /\ StopInvoked
    /\ started = 2
    /\ C13_StopHandles = {2}

\* C23: real_connect makes no configuration update call; while it executes
\* nothing has been delivered for its session, and a delivery is made by the
\* main loop, for a session whose real_connect has returned.
C23_DeferredDelivery ==
    /\ [](/\ ~Made(connectCall.calls, "nm_vpn_service_plugin_set_config")
          /\ ~Made(connectCall.calls, "nm_vpn_service_plugin_set_ip4_config")
          /\ pending.active => delivered[pending.session] = <<>>
          /\ deliveryCall.called => (pc = "loop" /\ deliveryCall.session <= started))
    /\ [][ delivered' # delivered =>
               /\ pc = "loop"
               /\ pc' = "loop"
               /\ ~connectCall'.called
               /\ deliveryCall'.called
         ]_vars

C23_Witness ==
    /\ deliveryCall.called
    /\ deliveryCall.session = 2
    /\ UpdateCalls(2) # <<>>

\* C24: with the certifile item present, vpn_start receives the certificate
\* item's text unchanged and the length 0, and g_base64_decode is not called.
C24_PathPassedThrough ==
    (connectCall.called /\ StartInvoked /\ connectCall.connection.certifile.present) =>
        /\ \A c \in StartCalls :
               /\ c.data = connectCall.connection.certificate.value
               /\ c.len = 0
        /\ ~Made(connectCall.calls, "g_base64_decode")

C24_Witness ==
    /\ connectCall.called
    /\ StartInvoked
    /\ connectCall.connection.certifile.present
    /\ connectCall.connection.certificate.value = CertificatePath

C25_Embedded ==
    /\ connectCall.called
    /\ connectCall.connection.s_vpn
    /\ connectCall.connection.certificate.present
    /\ ~connectCall.connection.certifile.present
    /\ connectCall.connection.protocol.present

\* C25: with the certifile item absent, vpn_start receives the bytes
\* g_base64_decode yields for the certificate text and their number; a text
\* that is not valid base64 is not rejected: vpn_start is called whenever the
\* module is loaded.
C25_DecodedPassed ==
    /\ (C25_Embedded /\ StartInvoked) =>
           \A c \in StartCalls :
               /\ c.data = g_base64_decode(connectCall.connection.certificate.value)
               /\ c.len = Len(c.data)
               /\ connectCall.connection.certificate.value = EmbeddedCertificate
                      => c.data = <<65, 66, 67>>
               /\ connectCall.connection.certificate.value = MalformedCertificate
                      => (c.data = <<65, 66, 67>> /\ c.len = 3)
               /\ connectCall.connection.certificate.value = CertificatePath
                      => (c.data = <<>> /\ c.len = 0)
    /\ (C25_Embedded /\ priv.lib_handle # NULL) => StartInvoked

C25_Witness ==
    /\ C25_Embedded
    /\ StartInvoked
    /\ connectCall.connection.certificate.value = MalformedCertificate

\* The two configurations of the latest delivery.
DeliveredGeneral == deliveryCall.calls[1].config
DeliveredIp4 == deliveryCall.calls[2].config

\* The bytes of a 32-bit value as they lie in the memory of a little-endian
\* host, and the bytes of an IPv4 address in network order.
MemoryBytes(x) == <<x % 256, (x \div 256) % 256, (x \div 65536) % 256, (x \div 16777216) % 256>>
NetworkBytes(x) == <<(x \div 16777216) % 256, (x \div 65536) % 256, (x \div 256) % 256, x % 256>>

C26_Record ==
    /\ deliveryCall.called
    /\ deliveryCall.cfg.tunnel_address # 0
    /\ deliveryCall.cfg.tunnel_prefix = 24
    /\ deliveryCall.cfg.dns_address # 0
    /\ deliveryCall.cfg.tunnel_name = <<>>
    /\ deliveryCall.cfg.tunnel_mtu = 0
    /\ deliveryCall.cfg.remote_address = 0
    /\ deliveryCall.cfg.tunnel_gateway = 0

\* C26 as stated: the record with address X, prefix 24 and DNS Y only is
\* delivered with the address value X, the prefix 24, the DNS list <<Y>>, and
\* without external gateway and MTU entries.
C26_RoundTrip ==
    C26_Record =>
        /\ DOMAIN DeliveredIp4 = {"address", "prefix", "dns"}
        /\ DeliveredIp4["address"] = deliveryCall.cfg.tunnel_address
        /\ DeliveredIp4["prefix"] = 24
        /\ DeliveredIp4["dns"] = <<deliveryCall.cfg.dns_address>>
        /\ "gateway" \notin DOMAIN DeliveredGeneral
        /\ "mtu" \notin DOMAIN DeliveredGeneral

\* C26 amended: the record with address X, prefix 24 and DNS Y only is
\* delivered with the address X and the one-element DNS list of Y, both
\* converted to network byte order, the prefix 24, and without external
\* gateway and MTU entries.
C26_RoundTripNetworkOrder ==
    C26_Record =>
        /\ DOMAIN DeliveredIp4 = {"address", "prefix", "dns"}
        /\ MemoryBytes(DeliveredIp4["address"]) = NetworkBytes(deliveryCall.cfg.tunnel_address)
        /\ DeliveredIp4["prefix"] = 24
        /\ Len(DeliveredIp4["dns"]) = 1
        /\ MemoryBytes(DeliveredIp4["dns"][1]) = NetworkBytes(deliveryCall.cfg.dns_address)
        /\ "gateway" \notin DOMAIN DeliveredGeneral
        /\ "mtu" \notin DOMAIN DeliveredGeneral

C26_Witness == C26_Record /\ DeliveredIp4["address"] # deliveryCall.cfg.tunnel_address

\* C27: in every delivery each optional entry is present exactly when its
\* record field is non-zero (non-empty), and both configurations are sent
\* whatever fields are absent.
C27_OptionalEntries ==
    deliveryCall.called =>
        /\ ("tundev" \in DOMAIN DeliveredGeneral) <=> (deliveryCall.cfg.tunnel_name # <<>>)
        /\ ("mtu" \in DOMAIN DeliveredGeneral) <=> (deliveryCall.cfg.tunnel_mtu # 0)
        /\ ("gateway" \in DOMAIN DeliveredGeneral) <=> (deliveryCall.cfg.remote_address # 0)
        /\ ("internal-gateway" \in DOMAIN DeliveredIp4) <=> (deliveryCall.cfg.tunnel_gateway # 0)
        /\ ("address" \in DOMAIN DeliveredIp4) <=> (deliveryCall.cfg.tunnel_address # 0)
        /\ ("prefix" \in DOMAIN DeliveredIp4) <=> (deliveryCall.cfg.tunnel_prefix # 0)
        /\ ("dns" \in DOMAIN DeliveredIp4) <=> (deliveryCall.cfg.dns_address # 0)
        /\ DOMAIN DeliveredGeneral \subseteq {"tundev", "mtu", "gateway", "has-ip4"}
        /\ DOMAIN DeliveredIp4 \subseteq {"internal-gateway", "address", "prefix", "dns"}
        /\ Len(deliveryCall.calls) = 4
        /\ deliveryCall.calls[1].f = "nm_vpn_service_plugin_set_config"
        /\ deliveryCall.calls[2].f = "nm_vpn_service_plugin_set_ip4_config"

C27_Witness ==
    /\ deliveryCall.called
    /\ deliveryCall.cfg.tunnel_prefix # 0
    /\ deliveryCall.cfg.tunnel_address = 0
    /\ deliveryCall.cfg.tunnel_mtu # 0
    /\ deliveryCall.cfg.tunnel_name = <<>>
    /\ DOMAIN DeliveredIp4 = {"prefix"}

\* C28: every general configuration delivered has the has-ip4 entry with the
\* value TRUE.
C28_HasIp4 ==
    deliveryCall.called =>
        /\ "has-ip4" \in DOMAIN DeliveredGeneral
        /\ DeliveredGeneral["has-ip4"] = TRUE

C28_Witness ==
    /\ deliveryCall.called
    /\ deliveryCall.cfg = ZeroConfig
    /\ DOMAIN DeliveredGeneral = {"has-ip4"}

\* C29: a non-zero remote address is delivered as the gateway entry whose
\* bytes in memory are the address in network order, and a zero remote
\* address gives no gateway entry.
C29_GatewayNetworkOrder ==
    deliveryCall.called =>
        IF deliveryCall.cfg.remote_address # 0
        THEN /\ "gateway" \in DOMAIN DeliveredGeneral
             /\ MemoryBytes(DeliveredGeneral["gateway"]) = NetworkBytes(deliveryCall.cfg.remote_address)
        ELSE "gateway" \notin DOMAIN DeliveredGeneral

C29_Witness ==
    /\ deliveryCall.called
    /\ deliveryCall.cfg.remote_address = 16909060
    /\ DeliveredGeneral["gateway"] = 67305985

C30_Released == <<"nm_vpn_service_plugin_set_config", "nm_vpn_service_plugin_set_ip4_config",
                  "g_free_cfg", "g_free_data">>

\* C30: the record of a session is freed at most once, after both
\* configurations were sent and with no read of it afterwards, and when the
\* host has no configuration left to dispatch or the process has ended, the
\* record of every successful vpn_start has been freed.
C30_ReleasedOnce ==
    /\ \A h \in Sessions : delivered[h] \in {<<>>, C30_Released}
    /\ (pc # "connect"
        /\ (pc = "aborted" \/ \A i \in 1..Len(idleQueue) : idleQueue[i].kind # "config"))
           => \A h \in 1..started : delivered[h] = C30_Released

\* C31: a configuration is delivered only for a session that has not been
\* torn down: its handle is still stored and was not passed to vpn_stop.
C31_NoDeliveryAfterTeardown ==
    deliveryCall.called =>
        /\ stopCalls[deliveryCall.session] = 0
        /\ priv.coordinator = deliveryCall.session

\* C32: the handler of an event with a message that finds the handle of
\* another session than the one that reported the event stored marks no
\* failure and requests no disconnect.
C32_OwnSessionOnly ==
    ( /\ errorCall.called
      /\ errorCall.message.present
      /\ errorCall.before # NULL
      /\ errorCall.session # errorCall.before )
    => /\ ~Made(errorCall.calls, "nm_vpn_service_plugin_failure")
       /\ ~Made(errorCall.calls, "nm_vpn_service_plugin_disconnect")
       /\ ~Made(errorCall.calls, "vpn_stop")

\* C33: the handler of an event with a message whose session was already
\* stopped by a host disconnect marks no failure.
C33_CleanStaysClean ==
    ( /\ errorCall.called
      /\ errorCall.message.present
      /\ errorCall.before = NULL
      /\ stopCalls[errorCall.session] = 1 )
    => ~Made(errorCall.calls, "nm_vpn_service_plugin_failure")

C34_LoadReached ==
    /\ connectCall.connection.s_vpn
    /\ connectCall.connection.certificate.present
    /\ connectCall.connection.protocol.present

\* C34: between operations a stored handle implies a loaded module with both
\* entry points resolved and a loaded module implies both entry points
\* resolved; a load that failed leaves the module handle NULL, and a connect
\* that reaches the loader with the module handle NULL calls dlopen.
C34_BindingConsistent ==
    /\ [](/\ priv.coordinator # NULL =>
                 (priv.lib_handle # NULL /\ priv.vpn_start # NULL /\ priv.vpn_stop # NULL)
          /\ priv.lib_handle # NULL => (priv.vpn_start # NULL /\ priv.vpn_stop # NULL)
          /\ (connectCall.called /\ Made(connectCall.calls, "dlopen") /\ ~StartInvoked)
                 => priv.lib_handle = NULL)
    /\ [][ (priv.lib_handle = NULL /\ connects' # connects /\ C34_LoadReached')
               => Made(connectCall'.calls, "dlopen")
         ]_vars

C34_Witness ==
    /\ connects = 2
    /\ connectCall.called
    /\ Made(connectCall.calls, "dlopen")
    /\ StartInvoked
    /\ connectCall.start.ok
    /\ started = 1

C35_Position(f) ==
    CHOOSE i \in 1..Len(disconnectCall.calls) :
        /\ disconnectCall.calls[i].f = f
        /\ \A j \in 1..(i - 1) : disconnectCall.calls[j].f # f

\* C35: a real_disconnect that calls vpn_stop clears the handle before it
\* requests the disconnect from libnm, and the request does not lead to a
\* second vpn_stop call.
C35_ClearedBeforeRequest ==
    (disconnectCall.called /\ StopInvoked) =>
        /\ Made(disconnectCall.calls, "clear_coordinator")
        /\ Made(disconnectCall.calls, "nm_vpn_service_plugin_disconnect")
        /\ C35_Position("vpn_stop") < C35_Position("clear_coordinator")
        /\ C35_Position("clear_coordinator") < C35_Position("nm_vpn_service_plugin_disconnect")
        /\ Count(disconnectCall.calls, "vpn_stop") = 1
        /\ priv.coordinator = NULL

C35_Witness ==
    /\ disconnectCall.called
    /\ StopInvoked
    /\ disconnectCall.before = 2
    /\ nmState = "STOPPED"

\* C36: a real_connect that has returned and had allocated the certificate
\* buffer (g_strdup or g_base64_decode) has freed it once.
C36_CertificateFreed ==
    ( /\ connectCall.called
      /\ connectCall.ret \in {"FALSE", "TRUE"}
      /\ (Made(connectCall.calls, "g_strdup") \/ Made(connectCall.calls, "g_base64_decode")) )
    => Count(connectCall.calls, "g_free_certificate_data") = 1

\* C37: a connection saved by update_connection has a certificate item and a
\* protocol item and no file-name flag; a connect of it passes validation
\* and decodes the certificate with g_base64_decode; and when the
\* certificate was embedded from a file, the data and length passed to
\* vpn_start are that file's bytes and their number.
C37_SavedConnectionRoundTrip ==
    /\ saved.present =>
          /\ saved.connection.s_vpn
          /\ saved.connection.certificate.present
          /\ saved.connection.protocol.present
          /\ ~saved.connection.certifile.present
    /\ (saved.present /\ connectCall.called) =>
          /\ connectCall.connection = saved.connection
          /\ connectCall.error.code \notin {"InvalidConnection", "BadArguments"}
          /\ Made(connectCall.calls, "g_base64_decode")
          /\ ~Made(connectCall.calls, "g_strdup")
    /\ (saved.present /\ saved.embedded.present /\ connectCall.called /\ StartInvoked) =>
          \A c \in StartCalls :
             /\ c.data = saved.embedded.value
             /\ c.len = Len(saved.embedded.value)
             /\ c.protocol = saved.connection.protocol.value

\* A connect of a saved connection whose embedded file ends in a padded
\* group and holds the bytes 0 and 0xff has called vpn_start.
C37_Witness ==
    /\ saved.present
    /\ saved.embedded.present
    /\ saved.embedded.value = <<255, 0>>
    /\ connectCall.called
    /\ StartInvoked
    /\ connectCall.ret = "TRUE"

====
